---- MODULE Spec2Model ----
(***************************************************************************)
(* A model of fmap.py (version 2.4.2): the tick formatters installed by    *)
(* one_plot, row_plot and multi_plot, the tick positions they compute, the *)
(* loops that configure the subplots, and plot_town and plot_var.          *)
(*                                                                         *)
(* Degree values are integers.  A string is a sequence of one-character    *)
(* strings.  An Axes object and a numpy array of objects are tagged        *)
(* records; Python's None is the value None.                               *)
(***************************************************************************)
EXTENDS Integers, Sequences, FiniteSets, TLC

VARIABLES
    tick,      \* the degree value matplotlib hands to a tick formatter
    which,     \* the formatter that was called: "none", "lon" or "lat"
    label,     \* the value the formatter returned
    pc,        \* "start", "fig" (a creator returned a figure), "failed" (the
               \* creator raised), "drawn" (one call was made on the figure)
    axs,       \* the axes handle returned by one_plot / row_plot / multi_plot
    axstate,   \* what has been done to each subplot plt.subplots created
    fig,       \* what has been done to the figure
    last,      \* the last call: its name, its arguments, the exception it raised
    grid,      \* the two-dimensional grid the axes-grid normalizer returned
    labelled   \* the label placement applied to the grid

vars == <<tick, which, label, pc, axs, axstate, fig, last, grid, labelled>>
fmtvars == <<tick, which, label>>
figvars == <<pc, axs, axstate, fig, last>>
gridvars == <<grid, labelled>>

\* ------------------------------------------------------------------ bounds
\* Tick values handed to the formatters range over -MaxDeg..MaxDeg.
MaxDeg == 200
\* Bounding-box longitudes range over -MaxLon..MaxLon, latitudes over
\* -MaxLat..MaxLat, tick intervals over 1..MaxTick.
MaxLon == 3
MaxLat == 1
MaxTick == 2
\* rows and cols range over 1..MaxDim (row_plot, multi_plot).
MaxDim == 3

\* ------------------------------------------------- defaults of the signatures
Default_wlon == -112
Default_elon == -103
Default_nlat == 46
Default_slat == 40
Default_ticks == 1

\* --------------------------------------------------------- Python primitives
None == [kind |-> "None"]

abs(n) == IF n < 0 THEN -n ELSE n

DigitChar(d) == <<"0", "1", "2", "3", "4", "5", "6", "7", "8", "9">>[d + 1]

RECURSIVE Digits(_)
Digits(n) == IF n < 10 THEN <<DigitChar(n)>>
             ELSE Digits(n \div 10) \o <<DigitChar(n % 10)>>

\* str(n) of a Python int: a minus sign, then the decimal digits.
Str(n) == IF n < 0 THEN <<"-">> \o Digits(-n) ELSE Digits(n)

\* '{}<suffix>'.format(v)
Format(v, suffix) == Str(v) \o suffix

Degree == <<"°">>

\* ------------------------------------------------------------ tick formatters
lon_formatter_no_abs(x) ==
    IF x = 0 \/ x = 180 THEN Format(x, Degree)
    ELSE IF x < 0 THEN Format(x, Degree \o <<"W">>)
    ELSE IF x > 0 THEN Format(x, Degree \o <<"E">>)
    ELSE None

lon_formatter(x) ==
    IF x = 0 \/ x = 180 THEN Format(abs(x), Degree)
    ELSE IF x < 0 THEN Format(abs(x), Degree \o <<"W">>)
    ELSE IF x > 0 THEN Format(abs(x), Degree \o <<"E">>)
    ELSE None

lat_formatter_zero_north(y) ==
    IF y < 0 THEN Format(abs(y), Degree \o <<"S">>)
    ELSE IF y >= 0 THEN Format(abs(y), Degree \o <<"N">>)
    ELSE None

lat_formatter(y) ==
    IF y < 0 THEN Format(abs(y), Degree \o <<"S">>)
    ELSE IF y > 0 THEN Format(abs(y), Degree \o <<"N">>)
    ELSE IF y = 0 THEN Format(abs(y), Degree)
    ELSE None

\* ------------------------------------------------------------ axes handles
Ax(r, c) == [kind |-> "Axes", r |-> r, c |-> c]
Arr(elems) == [kind |-> "ndarray", elems |-> elems]

\* plt.subplots(rows, cols) with the default squeeze=True: one Axes for 1x1,
\* a 1-D array when exactly one dimension is 1, a 2-D array otherwise.
Subplots(rows, cols) ==
    IF rows = 1 /\ cols = 1 THEN Ax(0, 0)
    ELSE IF rows = 1 THEN Arr([c \in 1..cols |-> Ax(0, c - 1)])
    ELSE IF cols = 1 THEN Arr([r \in 1..rows |-> Ax(r - 1, 0)])
    ELSE Arr([r \in 1..rows |-> Arr([c \in 1..cols |-> Ax(r - 1, c - 1)])])

SubplotIds(rows, cols) == (0..(rows - 1)) \X (0..(cols - 1))

Id(ax) == <<ax.r, ax.c>>

Ndim(a) == IF a.elems # <<>> /\ a.elems[1].kind = "ndarray" THEN 2 ELSE 1

\* axs[i, j] for non-negative i, j.
Index2(a, i, j) ==
    IF a.kind # "ndarray" THEN [kind |-> "TypeError"]
    ELSE IF Ndim(a) # 2 THEN [kind |-> "IndexError"]
    ELSE IF i >= Len(a.elems) \/ j >= Len(a.elems[i + 1].elems)
         THEN [kind |-> "IndexError"]
    ELSE a.elems[i + 1].elems[j + 1]

\* iter(obj) succeeds (an array of one or two dimensions), or raises TypeError.
Iterable(obj) == obj.kind = "ndarray"

isiterable_never(obj) == FALSE

isiterable(obj) == IF Iterable(obj) THEN TRUE ELSE FALSE

\* ------------------------------------------------------------ tick positions
\* np.arange(start, stop, step) for integers and step >= 1.
arange(start, stop, step) ==
    LET n == IF stop <= start THEN 0 ELSE (stop - start + step - 1) \div step
    IN  [k \in 1..n |-> start + (k - 1) * step]

ticks_past_the_bound(lo, hi, step) == arange(lo, hi + step, step)

\* xticks = np.arange(wlon,elon+1,lonticks); yticks = np.arange(slat,nlat+1,latticks)
ticks(lo, hi, step) == arange(lo, hi + 1, step)

\* ------------------------------------------------------- the figure's state
NewAxes == [n |-> 0, extent |-> <<>>, xticks |-> <<>>, yticks |-> <<>>,
            xformatter |-> "", yformatter |-> "", title |-> FALSE,
            marks |-> 0, texts |-> 0, scatters |-> 0,
            contourf |-> 0, contour |-> 0, clabel |-> 0]

NewFigure == [suptitle |-> FALSE, colorbars |-> 0, saved |-> 0]

Fresh(rows, cols) == [id \in SubplotIds(rows, cols) |-> NewAxes]

Box(wlon, elon, nlat, slat, lonticks, latticks) ==
    [wlon |-> wlon, elon |-> elon, nlat |-> nlat, slat |-> slat,
     lonticks |-> lonticks, latticks |-> latticks]

\* The body every creator runs on one subplot: set_extent, add_feature,
\* set_xticks / set_yticks and the two set_major_formatter calls.
Configure(st, id, b) ==
    [st EXCEPT ![id] = [@ EXCEPT !.n = @ + 1,
                                 !.extent = <<b.wlon, b.elon, b.slat, b.nlat>>,
                                 !.xticks = ticks(b.wlon, b.elon, b.lonticks),
                                 !.yticks = ticks(b.slat, b.nlat, b.latticks),
                                 !.xformatter = "lon_formatter",
                                 !.yformatter = "lat_formatter"]]

\* ---------------------------------------------------------------- one_plot
one_plot(b) ==
    /\ pc = "start"
    /\ LET ax == Subplots(1, 1)
       IN  /\ axstate' = [Configure(Fresh(1, 1), Id(ax), b)
                             EXCEPT ![Id(ax)].title = TRUE]
           /\ axs' = ax
    /\ fig' = NewFigure
    /\ pc' = "fig"
    /\ last' = [op |-> "one_plot", box |-> b, rows |-> 1, cols |-> 1, err |-> ""]
    /\ UNCHANGED <<fmtvars, gridvars>>

\* ---------------------------------------------------------------- row_plot
\* for ax in axs: ... over the elements from position i on.
RECURSIVE RowLoop(_, _, _, _)
RowLoop(st, elems, i, b) ==
    IF i > Len(elems) THEN st
    ELSE RowLoop(Configure(st, Id(elems[i]), b), elems, i + 1, b)

row_plot(b, cols) ==
    /\ pc = "start"
    /\ LET a == Subplots(1, cols)
       IN  IF Iterable(a)
           THEN /\ axstate' = RowLoop(Fresh(1, cols), a.elems, 1, b)
                /\ fig' = [NewFigure EXCEPT !.suptitle = TRUE]
                /\ axs' = a
                /\ pc' = "fig"
                /\ last' = [op |-> "row_plot", box |-> b, rows |-> 1,
                            cols |-> cols, err |-> ""]
           ELSE \* iterating a single Axes raises TypeError
                /\ axstate' = Fresh(1, cols)
                /\ fig' = NewFigure
                /\ axs' = None
                /\ pc' = "failed"
                /\ last' = [op |-> "row_plot", box |-> b, rows |-> 1,
                            cols |-> cols, err |-> "TypeError"]
    /\ UNCHANGED <<fmtvars, gridvars>>

\* -------------------------------------------------------------- multi_plot
\* for a_n in range(rows*cols): axs[a_n//rows, a_n%cols]. ...
RECURSIVE MultiLoop(_, _, _, _, _, _)
MultiLoop(st, a, a_n, rows, cols, b) ==
    IF a_n >= rows * cols THEN [st |-> st, err |-> ""]
    ELSE LET t == Index2(a, a_n \div rows, a_n % cols)
         IN  IF t.kind # "Axes" THEN [st |-> st, err |-> t.kind]
             ELSE MultiLoop(Configure(st, Id(t), b), a, a_n + 1, rows, cols, b)

multi_plot(b, rows, cols) ==
    /\ pc = "start"
    /\ LET a == Subplots(rows, cols)
           r == MultiLoop(Fresh(rows, cols), a, 0, rows, cols, b)
       IN  /\ axstate' = r.st
           /\ fig' = [NewFigure EXCEPT !.suptitle = (r.err = "")]
           /\ axs' = IF r.err = "" THEN a ELSE None
           /\ pc' = IF r.err = "" THEN "fig" ELSE "failed"
           /\ last' = [op |-> "multi_plot", box |-> b, rows |-> rows,
                       cols |-> cols, err |-> r.err]
    /\ UNCHANGED <<fmtvars, gridvars>>

\* --------------------------------------------------------------- plot_town
\* ax.plot(...) and ax.text(...) on one subplot.
Mark(st, id) == [st EXCEPT ![id] = [@ EXCEPT !.marks = @ + 1, !.texts = @ + 1]]

\* for ax in axis: ax.plot(...); ax.text(...)  -- an element that is itself an
\* array has no attribute plot.
RECURSIVE TownLoop(_, _, _)
TownLoop(st, elems, i) ==
    IF i > Len(elems) THEN [st |-> st, err |-> ""]
    ELSE IF elems[i].kind # "Axes" THEN [st |-> st, err |-> "AttributeError"]
    ELSE TownLoop(Mark(st, Id(elems[i])), elems, i + 1)

\* found: the location names a row of uscities (otherwise .values[0] raises).
plot_town(axis, found) ==
    /\ pc = "fig"
    /\ LET r == IF ~found THEN [st |-> axstate, err |-> "IndexError"]
                ELSE IF isiterable(axis) THEN TownLoop(axstate, axis.elems, 1)
                ELSE IF axis.kind # "Axes"
                THEN [st |-> axstate, err |-> "AttributeError"]
                ELSE [st |-> Mark(axstate, Id(axis)), err |-> ""]
       IN  /\ axstate' = r.st
           /\ last' = [op |-> "plot_town", axis |-> axis, found |-> found,
                       err |-> r.err]
    /\ pc' = "drawn"
    /\ UNCHANGED <<axs, fig, fmtvars, gridvars>>

\* ---------------------------------------------------------------- plot_var
Precs == {"", "int", "precision", "precision, 2"}
Styles == {"contourf", "contour", "scatter"}

\* 'precision' in prec
HasPrecision(prec) == prec \in {"precision", "precision, 2"}
\* prec.split(',')[1] exists and int() parses it
HasDigits(prec) == prec = "precision, 2"

PlotVarBody(st, f, axis, style, normalization, cbar_include, prec) ==
    LET id == Id(axis)
        bad == HasPrecision(prec) /\ ~HasDigits(prec)
    IN  IF style \in {"contourf", "contour"} /\ axis.kind # "Axes"
        THEN [st |-> st, fig |-> f, err |-> "AttributeError"]
        ELSE IF style = "contourf"
        THEN [st |-> [st EXCEPT ![id].contourf = @ + 1],
              fig |-> IF cbar_include THEN [f EXCEPT !.colorbars = @ + 1] ELSE f,
              err |-> IF cbar_include /\ bad THEN "IndexError" ELSE ""]
        ELSE IF style = "contour"
        THEN [st |-> [st EXCEPT ![id].contour = @ + 1,
                                ![id].clabel = IF bad THEN @ ELSE @ + 1],
              fig |-> f,
              err |-> IF bad THEN "IndexError" ELSE ""]
        ELSE [st |-> st, fig |-> f, err |-> ""]

plot_var(axis, style, normalization, cbar_include, prec) ==
    /\ pc = "fig"
    /\ LET r == IF isiterable(axis)
                THEN [st |-> axstate, fig |-> fig, err |-> "TypeError"]
                ELSE PlotVarBody(axstate, fig, axis, style, normalization,
                                 cbar_include, prec)
       IN  /\ axstate' = r.st
           /\ fig' = r.fig
           /\ last' = [op |-> "plot_var", axis |-> axis, style |-> style,
                       normalization |-> normalization,
                       cbar_include |-> cbar_include, prec |-> prec,
                       err |-> r.err]
    /\ pc' = "drawn"
    /\ UNCHANGED <<axs, fmtvars, gridvars>>

\* ------------------------------- plot_point_value, plot_points, add_text, save
\* ax.text(...) / ax.scatter(...) on the object passed as ax: an array has
\* neither attribute.
plot_point_value(ax) ==
    /\ pc = "fig"
    /\ LET ok == ax.kind = "Axes"
       IN  /\ axstate' = IF ok THEN [axstate EXCEPT ![Id(ax)].texts = @ + 1]
                          ELSE axstate
           /\ last' = [op |-> "plot_point_value", axis |-> ax,
                       err |-> IF ok THEN "" ELSE "AttributeError"]
    /\ pc' = "drawn"
    /\ UNCHANGED <<axs, fig, fmtvars, gridvars>>

plot_points(ax) ==
    /\ pc = "fig"
    /\ LET ok == ax.kind = "Axes"
       IN  /\ axstate' = IF ok THEN [axstate EXCEPT ![Id(ax)].scatters = @ + 1]
                          ELSE axstate
           /\ last' = [op |-> "plot_points", axis |-> ax,
                       err |-> IF ok THEN "" ELSE "AttributeError"]
    /\ pc' = "drawn"
    /\ UNCHANGED <<axs, fig, fmtvars, gridvars>>

add_text(ax) ==
    /\ pc = "fig"
    /\ LET ok == ax.kind = "Axes"
       IN  /\ axstate' = IF ok THEN [axstate EXCEPT ![Id(ax)].texts = @ + 1]
                          ELSE axstate
           /\ last' = [op |-> "add_text", axis |-> ax,
                       err |-> IF ok THEN "" ELSE "AttributeError"]
    /\ pc' = "drawn"
    /\ UNCHANGED <<axs, fig, fmtvars, gridvars>>

\* fig.savefig(path, ...) with or without bbox_inches='tight'.
save(tight_layout) ==
    /\ pc = "fig"
    /\ fig' = [fig EXCEPT !.saved = @ + 1]
    /\ last' = [op |-> "save", tight_layout |-> tight_layout, err |-> ""]
    /\ pc' = "drawn"
    /\ UNCHANGED <<axs, axstate, fmtvars, gridvars>>

\* ------------------------------------------------- the formatters, as called
Degrees == (-MaxDeg)..MaxDeg

call_lon_formatter(x) ==
    /\ tick' = x
    /\ which' = "lon"
    /\ label' = lon_formatter(x)
    /\ UNCHANGED <<figvars, gridvars>>

call_lat_formatter(y) ==
    /\ tick' = y
    /\ which' = "lat"
    /\ label' = lat_formatter(y)
    /\ UNCHANGED <<figvars, gridvars>>

\* ------------------------------------- axes-grid normalizer, label placement
normalize_one_row(handle, rows, cols) ==
    IF rows = 1 /\ cols = 1 THEN Arr(<<Arr(<<handle>>)>>)
    ELSE IF rows = 1 \/ cols = 1 THEN Arr(<<handle>>)
    ELSE handle

normalize(handle, rows, cols) ==
    IF rows = 1 /\ cols = 1 THEN Arr(<<Arr(<<handle>>)>>)
    ELSE IF cols = 1 THEN Arr([r \in 1..rows |-> Arr(<<handle.elems[r]>>)])
    ELSE IF rows = 1 THEN Arr(<<handle>>)
    ELSE handle

normalize_axes(rows, cols) ==
    /\ grid = None
    /\ grid' = [kind |-> "grid", rows |-> rows, cols |-> cols,
                axes |-> normalize(Subplots(rows, cols), rows, cols)]
    /\ UNCHANGED <<labelled, fmtvars, figvars>>

Modes == {"all", "outer"}
Rotations == {<<>>, <<0>>, <<45>>}

placement_outer_top(g, mode) ==
    [lon |-> {Id(Index2(g.axes, rc[1], rc[2])) : rc \in
                 {q \in SubplotIds(g.rows, g.cols) : mode = "all" \/ q[1] = 0}},
     lat |-> {Id(Index2(g.axes, rc[1], rc[2])) : rc \in
                 {q \in SubplotIds(g.rows, g.cols) : mode = "all" \/ q[2] = 0}}]

\* The subplots that receive longitude labels and latitude labels.
placement(g, mode) ==
    [lon |-> {Id(Index2(g.axes, rc[1], rc[2])) : rc \in
                 {q \in SubplotIds(g.rows, g.cols) :
                      mode = "all" \/ q[1] = g.rows - 1}},
     lat |-> {Id(Index2(g.axes, rc[1], rc[2])) : rc \in
                 {q \in SubplotIds(g.rows, g.cols) : mode = "all" \/ q[2] = 0}}]

\* An unspecified rotation is <<>>; it defaults to 0 when the other is given.
rotation(own, other) ==
    IF own # <<>> THEN own ELSE IF other # <<>> THEN <<0>> ELSE <<>>

label_axes(mode, lonrot, latrot) ==
    /\ grid # None
    /\ labelled = None
    /\ labelled' = [kind |-> "labels", mode |-> mode,
                    lon |-> placement(grid, mode).lon,
                    lat |-> placement(grid, mode).lat,
                    lonrot |-> rotation(lonrot, latrot),
                    latrot |-> rotation(latrot, lonrot)]
    /\ UNCHANGED <<grid, fmtvars, figvars>>

\* ------------------------------------------------------------ specifications
Init ==
    /\ tick = 0
    /\ which = "none"
    /\ label = None
    /\ pc = "start"
    /\ axs = None
    /\ axstate = <<>>
    /\ fig = None
    /\ last = [op |-> "none", err |-> ""]
    /\ grid = None
    /\ labelled = None

DefaultBox == Box(Default_wlon, Default_elon, Default_nlat, Default_slat,
                  Default_ticks, Default_ticks)

Dims == 1..MaxDim

\* The arguments a caller holding the returned handle can pass as an axis:
\* the handle, one of its elements, an element of an element, an empty array.
Elems(a) == IF a.kind = "ndarray" THEN {a.elems[i] : i \in DOMAIN a.elems} ELSE {}
AxisArgs == {axs} \cup Elems(axs) \cup UNION {Elems(e) : e \in Elems(axs)}
                  \cup {Arr(<<>>)}

OnePlot == one_plot(DefaultBox)
RowPlot == \E cols \in Dims : row_plot(DefaultBox, cols)
MultiPlot == \E rows \in Dims, cols \in Dims : multi_plot(DefaultBox, rows, cols)
PlotTown == \E axis \in AxisArgs, found \in BOOLEAN : plot_town(axis, found)
PlotVar ==
    \E axis \in AxisArgs, style \in Styles, normalization \in BOOLEAN,
       cbar_include \in BOOLEAN, prec \in Precs :
        plot_var(axis, style, normalization, cbar_include, prec)

PlotPointValue == \E ax \in AxisArgs : plot_point_value(ax)
PlotPoints == \E ax \in AxisArgs : plot_points(ax)
AddText == \E ax \in AxisArgs : add_text(ax)
Save == \E tight_layout \in BOOLEAN : save(tight_layout)

Next ==
    \/ OnePlot \/ RowPlot \/ MultiPlot \/ PlotTown \/ PlotVar
    \/ PlotPointValue \/ PlotPoints \/ AddText \/ Save

Spec == Init /\ [][Next]_vars

\* The creators over bounding boxes, with the default rows and cols (the
\* guard of the creators is repeated ahead of the quantifier).
Lons == (-MaxLon)..MaxLon
Lats == (-MaxLat)..MaxLat
Intervals == 1..MaxTick
OnePlotBox ==
    /\ pc = "start"
    /\ \E w \in Lons, e \in Lons, n \in Lats, s \in Lats, lt \in Intervals,
          tt \in Intervals : one_plot(Box(w, e, n, s, lt, tt))
RowPlotBox ==
    /\ pc = "start"
    /\ \E w \in Lons, e \in Lons, n \in Lats, s \in Lats, lt \in Intervals,
          tt \in Intervals : row_plot(Box(w, e, n, s, lt, tt), 2)
MultiPlotBox ==
    /\ pc = "start"
    /\ \E w \in Lons, e \in Lons, n \in Lats, s \in Lats, lt \in Intervals,
          tt \in Intervals : multi_plot(Box(w, e, n, s, lt, tt), 2, 2)

NextTicks == OnePlotBox \/ RowPlotBox \/ MultiPlotBox

SpecTicks == Init /\ [][NextTicks]_vars

\* The formatters over tick values.
FormatLon == \E x \in Degrees : call_lon_formatter(x)
FormatLat == \E y \in Degrees : call_lat_formatter(y)

NextFmt == FormatLon \/ FormatLat

SpecFmt == Init /\ [][NextFmt]_vars

\* The normalizer and the label placement over grids.
NormalizeAxes == \E rows \in Dims, cols \in Dims : normalize_axes(rows, cols)
LabelAxes ==
    \E mode \in Modes, lonrot \in Rotations, latrot \in Rotations :
        label_axes(mode, lonrot, latrot)

NextGrid == NormalizeAxes \/ LabelAxes

SpecGrid == Init /\ [][NextGrid]_vars

\* ------------------------------------------------------------------- claims
Chars(str) == {str[i] : i \in DOMAIN str}
Creators == {"one_plot", "row_plot", "multi_plot"}

\* C1: for every x with x % 180 = 0 the longitude formatter returns |x| and a
\* bare degree mark, with no sign and no direction letter.
C1_LonMultipleOf180IsBare ==
    (which = "lon" /\ tick % 180 = 0) => label = Digits(abs(tick)) \o <<"°">>

\* C2: for every x that is not a multiple of 180 the longitude formatter
\* returns |x| then "°W" when x < 0 and |x| then "°E" when x > 0; it returns a
\* string for every x, and the string holds no minus sign.
C2_LonDirection ==
    which = "lon" =>
        /\ label # None
        /\ "-" \notin Chars(label)
        /\ (tick % 180 # 0 /\ tick < 0) => label = Digits(abs(tick)) \o <<"°", "W">>
        /\ (tick % 180 # 0 /\ tick > 0) => label = Digits(abs(tick)) \o <<"°", "E">>

C2_Witness == which = "lon" /\ tick = -179 /\ label = <<"1", "7", "9", "°", "W">>

\* C3: the latitude formatter returns |y| then "°S" when y < 0, |y| then "°N"
\* when y > 0 and |y| then a bare degree mark when y = 0; one case applies to
\* every y, and the string holds no minus sign.
C3_LatDirection ==
    which = "lat" =>
        /\ label # None
        /\ "-" \notin Chars(label)
        /\ tick < 0 => label = Digits(abs(tick)) \o <<"°", "S">>
        /\ tick > 0 => label = Digits(abs(tick)) \o <<"°", "N">>
        /\ tick = 0 => label = <<"0", "°">>

C3_Witness == which = "lat" /\ tick = 0 /\ label = <<"0", "°">>

\* C4: plot_var given a collection of axes raises TypeError whatever style,
\* normalization, cbar_include and prec are, and leaves every subplot and the
\* figure as they were.
C4_PlotVarRejectsCollections ==
    [][(pc = "fig" /\ pc' = "drawn" /\ last'.op = "plot_var"
            /\ Iterable(last'.axis))
        => (last'.err = "TypeError" /\ axstate' = axstate /\ fig' = fig)]_vars

C4_Witness ==
    /\ pc = "drawn" /\ last.op = "plot_var" /\ last.err = "TypeError"
    /\ last.axis = axs /\ Ndim(axs) = 2
    /\ last.style = "contourf" /\ last.cbar_include

\* C7: plot_town given the handle a creator returned (one axes, a flat
\* sequence or a 2-D grid) draws the marker and the text exactly once on
\* every subplot of the figure.
C7_PlotTownMarksEverySubplot ==
    (pc = "drawn" /\ last.op = "plot_town" /\ last.found /\ last.axis = axs)
        => /\ last.err = ""
           /\ \A id \in DOMAIN axstate :
                  axstate[id].marks = 1 /\ axstate[id].texts = 1

\* C8: for rows >= 2 and cols >= 2 the loop of multi_plot never indexes
\* outside the grid and configures every subplot exactly once.
C8_MultiPlotConfiguresEachOnce ==
    (last.op = "multi_plot" /\ last.rows >= 2 /\ last.cols >= 2)
        => /\ last.err = ""
           /\ \A id \in SubplotIds(last.rows, last.cols) :
                  /\ axstate[id].n = 1
                  /\ axstate[id].xformatter = "lon_formatter"
                  /\ axstate[id].yformatter = "lat_formatter"

\* C9: for every cols >= 1 row_plot completes without raising and configures
\* each of the cols subplots exactly once.
C9_RowPlotCompletes ==
    (last.op = "row_plot" /\ last.cols >= 1)
        => /\ last.err = ""
           /\ \A id \in SubplotIds(1, last.cols) :
                  /\ axstate[id].n = 1
                  /\ axstate[id].xformatter = "lon_formatter"
                  /\ axstate[id].yformatter = "lat_formatter"

\* C10: the tick positions of every configured subplot are exactly the values
\* lo + k*step (k = 0, 1, ...) that are <= hi, in increasing order; when
\* lo <= hi they are non-empty, start at lo and stay inside [lo, hi]; and no
\* creator rejects a bounding box, wlon > elon included.
TicksAsClaimed(t, lo, hi, step) ==
    /\ Chars(t) = {v \in {lo + k * step : k \in 0..(hi - lo)} : v <= hi}
    /\ \A i \in DOMAIN t : t[i] = lo + (i - 1) * step
    /\ lo <= hi => (t # <<>> /\ t[1] = lo /\ \A i \in DOMAIN t : lo <= t[i] /\ t[i] <= hi)

C10_TickPositions ==
    last.op \in Creators =>
        /\ last.err = ""
        /\ \A id \in DOMAIN axstate :
               /\ axstate[id].n >= 1
               /\ TicksAsClaimed(axstate[id].xticks, last.box.wlon,
                                 last.box.elon, last.box.lonticks)
               /\ TicksAsClaimed(axstate[id].yticks, last.box.slat,
                                 last.box.nlat, last.box.latticks)

C10_Witness ==
    /\ last.op = "multi_plot" /\ last.err = ""
    /\ last.box.wlon = -3 /\ last.box.elon = 2 /\ last.box.lonticks = 2
    /\ axstate[<<1, 1>>].xticks = <<-3, -1, 1>>
    /\ last.box.slat = 0 /\ last.box.nlat = 1 /\ last.box.latticks = 1
    /\ axstate[<<1, 1>>].yticks = <<0, 1>>

\* C5: the normalizer returns a two-dimensional rows x cols grid whose element
\* (r, c) is the subplot at row r, column c, for the 1x1, rows x 1, 1 x cols
\* and rows x cols handles; a rows x cols handle with both above 1 is
\* returned unchanged.
C5_GridIsRowsByCols ==
    grid # None =>
        LET g == grid.axes
        IN  /\ g.kind = "ndarray"
            /\ Len(g.elems) = grid.rows
            /\ \A r \in 1..grid.rows :
                   g.elems[r].kind = "ndarray" /\ Len(g.elems[r].elems) = grid.cols
            /\ \A rc \in SubplotIds(grid.rows, grid.cols) :
                   Index2(g, rc[1], rc[2]) = Ax(rc[1], rc[2])
            /\ (grid.rows > 1 /\ grid.cols > 1) => g = Subplots(grid.rows, grid.cols)

C5_Witness ==
    /\ grid # None /\ grid.rows = 3 /\ grid.cols = 1
    /\ Index2(grid.axes, 2, 0) = Ax(2, 0)

\* C6: in "outer" mode a subplot receives longitude labels iff it is in the
\* bottom row and latitude labels iff it is in the leftmost column; in "all"
\* mode every subplot receives both.
C6_LabelPlacement ==
    labelled # None =>
        LET ids == SubplotIds(grid.rows, grid.cols)
        IN  /\ labelled.mode = "outer" =>
                   /\ labelled.lon = {id \in ids : id[1] = grid.rows - 1}
                   /\ labelled.lat = {id \in ids : id[2] = 0}
            /\ labelled.mode = "all" => (labelled.lon = ids /\ labelled.lat = ids)

C6_Witness ==
    /\ labelled # None /\ labelled.mode = "outer"
    /\ grid.rows = 3 /\ grid.cols = 3
    /\ labelled.lon = {<<2, 0>>, <<2, 1>>, <<2, 2>>}
    /\ labelled.lat = {<<0, 0>>, <<1, 0>>, <<2, 0>>}

====
